---------------------------- MODULE Spec2Model ----------------------------
(***************************************************************************)
(* Model of the Home component of src/app/page.tsx: the one-time camera    *)
(* request, the capture button, captureImage, the plate validator          *)
(* isValidPlateNumber and the asynchronous recognizeText cycle.            *)
(*                                                                         *)
(* A JavaScript string is a sequence of one-character strings; '' is <<>>  *)
(* for plateText and recognised text.  Messages and data URLs are opaque   *)
(* TLA+ strings.  The OCR engine (Tesseract.recognize) is external: its    *)
(* answer is an input drawn from Texts \X Confidences, or a rejection.     *)
(***************************************************************************)
EXTENDS Naturals, Sequences, FiniteSets

VARIABLES
    mounted,      \* videoRef.current / canvasRef.current are attached
    camera,       \* state of the getUserMedia promise
    srcObject,    \* videoRef.current.srcObject
    canvas,       \* bitmap held by the hidden canvas
    plateText,    \* useState('')
    loading,      \* useState(false)
    error,        \* useState('')
    lastCapture,  \* useState<string | null>(null)
    pending,      \* data URLs of the Tesseract.recognize calls not yet settled
    data          \* what the most recently settled recognize call delivered

vars == <<mounted, camera, srcObject, canvas, plateText, loading, error,
          lastCapture, pending, data>>

---------------------------------------------------------------------------
(* Bounds of the explored input space *)

MaxLen == 3        \* every text over Alphabet up to this length
MaxLetters == 6    \* letters in a generated text
MaxDigits == 6     \* digits in a generated text
MaxInFlight == 2   \* recognize calls the model lets be outstanding

---------------------------------------------------------------------------
(* Characters *)

UpperSeq == <<"A","B","C","D","E","F","G","H","I","J","K","L","M",
              "N","O","P","Q","R","S","T","U","V","W","X","Y","Z">>
LowerSeq == <<"a","b","c","d","e","f","g","h","i","j","k","l","m",
              "n","o","p","q","r","s","t","u","v","w","x","y","z">>
UpperLetters == {UpperSeq[i] : i \in 1..26}
LowerLetters == {LowerSeq[i] : i \in 1..26}
DigitChars == {"0","1","2","3","4","5","6","7","8","9"}

\* /[A-Z]/i
isLetter(c) == c \in UpperLetters \cup LowerLetters
\* /[0-9]/
isNumber(c) == c \in DigitChars
\* the complement of /[^A-Z0-9\-]/gi
isPlateChar(c) == isLetter(c) \/ isNumber(c) \/ c = "-"

isPlateCharNoHyphen(c) == isLetter(c) \/ isNumber(c)

\* text.replace(/[^A-Z0-9\-]/gi, '')
replaceNonPlateNoHyphen(text) == SelectSeq(text, isPlateCharNoHyphen)
replaceNonPlate(text) == SelectSeq(text, isPlateChar)

upperChar(c) ==
    IF c \in LowerLetters
    THEN UpperSeq[CHOOSE i \in 1..26 : LowerSeq[i] = c]
    ELSE c

\* String.prototype.toUpperCase on the characters that occur
toUpperCase(s) == [i \in 1..Len(s) |-> upperChar(s[i])]

\* (cleaned.match(/[A-Z]/gi) || []).length
countLetters(s) == Len(SelectSeq(s, isLetter))
\* (cleaned.match(/[0-9]/g) || []).length
countNumbers(s) == Len(SelectSeq(s, isNumber))

---------------------------------------------------------------------------
(* Messages *)

CameraError == "Unable to access camera. Please ensure you have granted camera permissions."
LowConfidenceError == "Low confidence in text recognition. Please ensure the number plate is clear and well-lit."
UnclearError == "Unclear image. Please try again with better lighting or move closer to the plate."
NoPlateError == "No valid number plate detected. Please ensure you are pointing the camera at a clear number plate."
FailedError == "Failed to recognize text. Please try again."

---------------------------------------------------------------------------
(* The plate validator *)

isValidPlateNumberLoose(text) ==
    LET cleaned == replaceNonPlate(text)
        hasLetter == \E i \in 1..Len(cleaned) : isLetter(cleaned[i])
        hasNumber == \E i \in 1..Len(cleaned) : isNumber(cleaned[i])
        letterCount == countLetters(cleaned)
        numberCount == countNumbers(cleaned)
    IN  IF Len(cleaned) < 3 \/ Len(cleaned) > 10 THEN FALSE
        ELSE IF ~hasLetter \/ ~hasNumber THEN FALSE
        ELSE \/ (letterCount >= 2 /\ numberCount >= 1)
             \/ (letterCount >= 1 /\ numberCount >= 3)

isValidPlateNumber(text) ==
    LET cleaned == replaceNonPlate(text)
        hasLetter == \E i \in 1..Len(cleaned) : isLetter(cleaned[i])
        hasNumber == \E i \in 1..Len(cleaned) : isNumber(cleaned[i])
        letterCount == countLetters(cleaned)
        numberCount == countNumbers(cleaned)
    IN  IF Len(cleaned) < 3 \/ Len(cleaned) > 10 THEN FALSE
        ELSE IF ~hasLetter \/ ~hasNumber THEN FALSE
        ELSE \/ (letterCount >= 2 /\ numberCount >= 2)
             \/ (letterCount >= 3 /\ numberCount >= 1)
             \/ (letterCount >= 1 /\ numberCount >= 3)

\* const cleaned = data.text.replace(/[^A-Z0-9\-]/gi, '').toUpperCase()
cleanedNoUpper(text) == replaceNonPlate(text)
cleanedText(text) == toUpperCase(replaceNonPlate(text))

\* The gates of recognizeText after the await: the message passed to
\* setError ("" when none is) and the value passed to setPlateText.
verdictShortFirst(text, confidence) ==
    LET cleaned == cleanedText(text)
    IN  IF confidence < 30 /\ Len(cleaned) < 4
        THEN [error |-> UnclearError, plate |-> <<>>]
        ELSE IF confidence < 15
        THEN [error |-> LowConfidenceError, plate |-> <<>>]
        ELSE IF ~isValidPlateNumber(cleaned)
        THEN [error |-> NoPlateError, plate |-> <<>>]
        ELSE [error |-> "", plate |-> cleaned]

verdictShortLen3(text, confidence) ==
    LET cleaned == cleanedText(text)
    IN  IF confidence < 15
        THEN [error |-> LowConfidenceError, plate |-> <<>>]
        ELSE IF confidence < 30 /\ Len(cleaned) < 3
        THEN [error |-> UnclearError, plate |-> <<>>]
        ELSE IF ~isValidPlateNumber(cleaned)
        THEN [error |-> NoPlateError, plate |-> <<>>]
        ELSE [error |-> "", plate |-> cleaned]

verdict(text, confidence) ==
    LET cleaned == cleanedText(text)
    IN  IF confidence < 15
        THEN [error |-> LowConfidenceError, plate |-> <<>>]
        ELSE IF confidence < 30 /\ Len(cleaned) < 4
        THEN [error |-> UnclearError, plate |-> <<>>]
        ELSE IF ~isValidPlateNumber(cleaned)
        THEN [error |-> NoPlateError, plate |-> <<>>]
        ELSE [error |-> "", plate |-> cleaned]

---------------------------------------------------------------------------
(* Inputs *)

Alphabet == {"A", "b", "7", "-", " "}

RECURSIVE SeqsUpTo(_, _)
SeqsUpTo(S, n) ==
    IF n = 0 THEN {<<>>}
    ELSE LET shorter == SeqsUpTo(S, n - 1)
         IN  shorter \cup {Append(s, c) : s \in {t \in shorter : Len(t) = n - 1}, c \in S}

Rep(c, n) == [i \in 1..n |-> c]

ShortTexts == SeqsUpTo(Alphabet, MaxLen)

\* nl letters, nd digits, optionally a hyphen between them and a newline after
CountedTexts ==
    {Rep("k", nl) \o Rep("-", nh) \o Rep("4", nd) \o Rep("\n", nj) :
        nl \in 0..MaxLetters, nd \in 0..MaxDigits, nh \in 0..1, nj \in 0..1}

SampleTexts ==
    { <<"A","B","-","1","2","3","4"," ">>,
      <<"a","b","c">>,
      <<"A","1">>,
      <<"K","A","0","1","A","B","1","2","3","4">>,
      <<"X","Y","Z">>,
      <<"Z","9">> }

Texts == ShortTexts \cup CountedTexts \cup SampleTexts

Confidences == {0, 10, 14, 15, 25, 29, 30, 50, 80, 90, 100}

\* A video frame: videoWidth, videoHeight and what is on screen
EmptyFrame == [width |-> 0, height |-> 0, pixels |-> ""]
LiveFrames == {[width |-> 2, height |-> 1, pixels |-> "P1"],
               [width |-> 2, height |-> 1, pixels |-> "P2"]}

\* what the video element can show: nothing without a stream; with a
\* stream, nothing yet or a frame of it
videoFrames(stream) ==
    IF stream = "null" THEN {EmptyFrame} ELSE {EmptyFrame} \cup LiveFrames

\* canvas.toDataURL('image/png'); a bitmap without pixels encodes as "data:,"
toDataURL(bitmap) ==
    IF bitmap.width = 0 \/ bitmap.height = 0
    THEN "data:,"
    ELSE "data:image/png;base64," \o bitmap.pixels

NULL == "null"

NoData == [kind |-> "none", text |-> <<>>, confidence |-> 0]
Thrown == [kind |-> "throw", text |-> <<>>, confidence |-> 0]
Recognized(text, confidence) == [kind |-> "ok", text |-> text, confidence |-> confidence]

---------------------------------------------------------------------------
(* State machine *)

Init ==
    /\ mounted = FALSE
    /\ camera = "idle"
    /\ srcObject = "null"
    /\ canvas = EmptyFrame
    /\ plateText = <<>>
    /\ loading = FALSE
    /\ error = ""
    /\ lastCapture = NULL
    /\ pending = <<>>
    /\ data = NoData

\* first commit: the refs attach, then the effect asks for the camera
useEffect ==
    /\ ~mounted
    /\ mounted' = TRUE
    /\ camera' = "pending"
    /\ UNCHANGED <<srcObject, canvas, plateText, loading, error, lastCapture,
                   pending, data>>

\* .then((stream) => ...)
cameraGranted ==
    /\ camera = "pending"
    /\ camera' = "granted"
    /\ srcObject' = IF mounted THEN "stream" ELSE srcObject
    /\ UNCHANGED <<mounted, canvas, plateText, loading, error, lastCapture,
                   pending, data>>

\* .catch((err) => ...)
cameraDenied ==
    /\ camera = "pending"
    /\ camera' = "denied"
    /\ error' = CameraError
    /\ UNCHANGED <<mounted, srcObject, canvas, plateText, loading,
                   lastCapture, pending, data>>

\* <button onClick={captureImage} disabled={loading}>
captureDisabledNever == FALSE
captureDisabled == loading

\* setLastCapture(dataUrl)
storedCaptureNone(dataUrl) == lastCapture
storedCapture(dataUrl) == dataUrl

\* A click on the enabled button: captureImage, then recognizeText up to
\* its await (the state updates of the handler are committed together).
captureImage(frame) ==
    /\ mounted
    /\ ~captureDisabled
    /\ Len(pending) < MaxInFlight
    /\ frame \in videoFrames(srcObject)
    /\ IF mounted   \* canvas && video
       THEN /\ canvas' = frame
            /\ loading' = TRUE
            /\ error' = ""
            /\ plateText' = <<>>
            /\ lastCapture' = storedCapture(toDataURL(canvas'))
            /\ pending' = Append(pending, toDataURL(canvas'))
            /\ data' = NoData
       ELSE UNCHANGED <<canvas, loading, error, plateText, lastCapture,
                        pending, data>>
    /\ UNCHANGED <<mounted, camera, srcObject>>

RemoveAt(s, i) == SubSeq(s, 1, i - 1) \o SubSeq(s, i + 1, Len(s))

\* finally { setLoading(false) }
finallyLoadingKept == loading
finallyLoading == FALSE

\* the await of call i resolves with { text, confidence }
recognizeResolved(i, text, confidence) ==
    LET v == verdict(text, confidence)
    IN  /\ i \in 1..Len(pending)
        /\ pending' = RemoveAt(pending, i)
        /\ data' = Recognized(text, confidence)
        /\ error' = IF v.error # "" THEN v.error ELSE error
        /\ plateText' = IF v.error = "" THEN v.plate ELSE plateText
        /\ loading' = finallyLoading
        /\ UNCHANGED <<mounted, camera, srcObject, canvas, lastCapture>>

\* the await of call i throws
recognizeRejected(i) ==
    /\ i \in 1..Len(pending)
    /\ pending' = RemoveAt(pending, i)
    /\ data' = Thrown
    /\ error' = FailedError
    /\ loading' = finallyLoading
    /\ UNCHANGED <<mounted, camera, srcObject, canvas, plateText, lastCapture>>

Next ==
    \/ useEffect
    \/ cameraGranted
    \/ cameraDenied
    \/ \E frame \in LiveFrames \cup {EmptyFrame} : captureImage(frame)
    \/ \E i \in 1..Len(pending) : \E text \in Texts, confidence \in Confidences :
           recognizeResolved(i, text, confidence)
    \/ \E i \in 1..Len(pending) : recognizeRejected(i)

Spec == Init /\ [][Next]_vars

---------------------------------------------------------------------------
(* Vocabulary of the properties *)

\* this step ends a recognition cycle
Settles == Len(pending') < Len(pending)
\* this step starts one
Captures == Len(pending') > Len(pending)

RecognitionErrors == {LowConfidenceError, UnclearError, NoPlateError, FailedError}

PlateAlphabet == UpperLetters \cup DigitChars \cup {"-"}
LettersIn(s) == Cardinality({i \in DOMAIN s : s[i] \in UpperLetters \cup LowerLetters})
DigitsIn(s) == Cardinality({i \in DOMAIN s : s[i] \in DigitChars})
HyphensIn(s) == Cardinality({i \in DOMAIN s : s[i] = "-"})
CleanLen(s) == LettersIn(s) + DigitsIn(s) + HyphensIn(s)

PlateShaped(s) ==
    /\ CleanLen(s) >= 3
    /\ CleanLen(s) <= 10
    /\ LettersIn(s) >= 1
    /\ DigitsIn(s) >= 1
    /\ \/ LettersIn(s) >= 2 /\ DigitsIn(s) >= 2
       \/ LettersIn(s) >= 3 /\ DigitsIn(s) >= 1
       \/ LettersIn(s) >= 1 /\ DigitsIn(s) >= 3

PassesConfidenceGates(d) ==
    /\ d.kind = "ok"
    /\ d.confidence >= 15
    /\ ~(d.confidence < 30 /\ CleanLen(d.text) < 4)

---------------------------------------------------------------------------
\* C1: a cycle whose OCR confidence is below 15 ends with the low-confidence
\* error set and plateText empty, whatever the recognised text is (the
\* short-text and shape gates do not get to answer first).
C1_LowConfidenceFirst ==
    [][(Settles /\ data'.kind = "ok" /\ data'.confidence < 15)
          => (error' = LowConfidenceError /\ plateText' = <<>>)]_vars

C1_Witness ==
    /\ data = Recognized(<<"X","Y","Z">>, 10)
    /\ error = LowConfidenceError
    /\ plateText = <<>>
    /\ ~loading

\* C2: a cycle with confidence in [15,30) and fewer than 4 cleaned characters
\* ends with the unclear-image error set and plateText empty.
C2_AmbiguousShortText ==
    [][(Settles /\ data'.kind = "ok" /\ data'.confidence >= 15
           /\ data'.confidence < 30 /\ CleanLen(data'.text) < 4)
          => (error' = UnclearError /\ plateText' = <<>>)]_vars

C2_Witness ==
    /\ data = Recognized(<<"Z","9">>, 25)
    /\ error = UnclearError
    /\ plateText = <<>>
    /\ ~loading

\* C3: the displayed plateText is empty, or it is made of [A-Z0-9-] only, is
\* 3 to 10 characters long and has at least one letter and one digit.
C3_PlateTextWellFormed ==
    \/ plateText = <<>>
    \/ /\ \A i \in DOMAIN plateText : plateText[i] \in PlateAlphabet
       /\ Len(plateText) >= 3
       /\ Len(plateText) <= 10
       /\ \E i \in DOMAIN plateText : plateText[i] \in UpperLetters
       /\ \E i \in DOMAIN plateText : plateText[i] \in DigitChars

C3_Witness ==
    /\ data.kind = "ok"
    /\ data.text = <<"k","k","-","4","4","\n">>
    /\ plateText = <<"K","K","-","4","4">>

\* C4: a result that passes both confidence gates is accepted with the
\* cleaned string exactly when the cleaned string is plate shaped; otherwise
\* the no-valid-plate error is set and plateText stays empty.
C4_ShapeGate ==
    [][(Settles /\ PassesConfidenceGates(data'))
          => IF PlateShaped(data'.text)
             THEN /\ plateText' = cleanedText(data'.text)
                  /\ plateText' # <<>>
                  /\ error' \notin RecognitionErrors
             ELSE /\ error' = NoPlateError
                  /\ plateText' = <<>>]_vars

C4_Witness ==
    /\ data = Recognized(<<"K","A","0","1","A","B","1","2","3","4">>, 50)
    /\ plateText = <<"K","A","0","1","A","B","1","2","3","4">>
    /\ error = ""

\* C5 (as amended): text "AB-1234 " with confidence 80 is accepted and the
\* accepted plate text is "AB-1234", the hyphen being kept.
C5_HyphenKept ==
    [][(Settles /\ data' = Recognized(<<"A","B","-","1","2","3","4"," ">>, 80))
          => (plateText' = <<"A","B","-","1","2","3","4">>
              /\ error' \notin RecognitionErrors)]_vars

C5_Witness ==
    /\ data = Recognized(<<"A","B","-","1","2","3","4"," ">>, 80)
    /\ plateText = <<"A","B","-","1","2","3","4">>
    /\ ~loading

\* C5 as stated: text "AB-1234 " with confidence 80 is accepted as "AB1234".
C5_Original ==
    [][(Settles /\ data' = Recognized(<<"A","B","-","1","2","3","4"," ">>, 80))
          => plateText' = <<"A","B","1","2","3","4">>]_vars

\* C6 as stated: once the camera request has failed, the camera-unavailable
\* message is the displayed error in every later state.
C6_CameraErrorPersists == camera = "denied" => error = CameraError

\* C7: every step that ends a recognition cycle leaves loading false and the
\* capture button enabled; when the OCR call threw, the error is the generic
\* failure message and plateText is empty.
C7_CycleEndsIdle ==
    [][Settles
          => /\ loading' = FALSE
             /\ ~captureDisabled'
             /\ (data'.kind = "throw"
                    => error' = FailedError /\ plateText' = <<>>)]_vars

C7_Witness ==
    /\ data.kind = "throw"
    /\ error = FailedError
    /\ plateText = <<>>
    /\ ~loading
    /\ pending = <<>>

\* C8: a capture stores the encoding of the frame it drew, the same one it
\* hands to the OCR call, in lastCapture; no other step changes lastCapture,
\* whatever the outcome of the cycle.
C8_LastCaptureKept ==
    [][/\ Captures => /\ lastCapture' = toDataURL(canvas')
                      /\ lastCapture' = pending'[Len(pending')]
       /\ ~Captures => lastCapture' = lastCapture]_vars

C8_Witness ==
    /\ data.kind = "throw"
    /\ ~loading
    /\ canvas.pixels = "P1"
    /\ lastCapture = "data:image/png;base64,P1"

\* C9 (as amended): the capture button is disabled while a recognition is in
\* flight, so at most one recognition is in flight in every reachable state.
C9_AtMostOneInFlight ==
    /\ Len(pending) <= 1
    /\ loading <=> Len(pending) = 1
    /\ loading => ~ENABLED (\E frame \in LiveFrames \cup {EmptyFrame} : captureImage(frame))

C9_Witness ==
    /\ loading
    /\ Len(pending) = 1
    /\ srcObject = "stream"

\* C9 as stated: while a recognition is in flight the capture trigger can
\* start another one.
C9_Original ==
    (loading /\ mounted)
        => ENABLED (\E frame \in LiveFrames \cup {EmptyFrame} : captureImage(frame))

=============================================================================
